---- MODULE Spec2Model ----
(***************************************************************************)
(* Consent Study Backend API (src/app.py): a Flask application that keeps  *)
(* every submitted response in one JSON file, responses.json, and answers  *)
(* health, submit, list, export (json, csv, excel), stats and clear.       *)
(*                                                                         *)
(* A Python dict is a function from its keys; a Python list is a sequence. *)
(* Ratings are fixed-point numbers counted in thousandths (5000 is 5.0,    *)
(* 1004 is 1.004); a rounded average is counted in hundredths.             *)
(***************************************************************************)
EXTENDS Integers, Sequences, FiniteSets, TLC

VARIABLES
    RESPONSES_FILE,   \* the file responses.json: [st, text]
    ADMIN_API_KEY,    \* the environment variable, or Unset
    workers,          \* the worker threads of the deployment
    pc,               \* pc[w]: where worker w is inside submit_response
    data,             \* data[w]: submit_response's local `data`
    responses,        \* responses[w]: submit_response's local `responses`
    sent,             \* sent[w]: the payload of w's request as the client sent it
    reply,            \* the response produced by the last step
    acked             \* the submits answered 201 since the last successful clear

vars == <<RESPONSES_FILE, ADMIN_API_KEY, workers, pc, data, responses, sent, reply, acked>>

\* ------------------------------------------------------------------ bounds

\* Submits accepted between two clears (in flight or acknowledged), and the
\* records a store may hold when a submit is accepted.
MaxSubmits == 2

\* ---------------------------------------------------------------- universe

Workers == {"w1", "w2"}

\* Python's None, as returned by dict.get and headers.get for a missing key.
None == "<None>"

\* The value datetime.now() returns; "T0" below is a time the server never reads.
Times == {"T1"}

Unset == "<unset>"
DefaultKey == "test-key-change-this"
EnvKeys == {Unset, "admin-secret"}
ApiKeys == {None, DefaultKey, "admin-secret"}

\* The values of the `department` query parameter; None when it is not given.
Departments == {None, "", "eng", "ops"}

VARIANTS == <<"variant-1", "variant-2", "variant-3", "variant-4", "variant-5", "variant-6">>

EmptyDict == <<>>

\* dict.get(key, default)
Get(d, key, default) == IF key \in DOMAIN d THEN d[key] ELSE default

\* A complete response of the study's front end.
PayloadA ==
    [sessionId |-> "s1", timestamp |-> "c1",
     feedback |-> [participantName |-> "Ann", participantEmail |-> "ann@x",
                   department |-> "eng", favorite |-> "variant-1",
                   mostTrusted |-> "variant-2", favoriteReason |-> "clear",
                   concerns |-> "none"],
     ratings |-> ("variant-1" :> 5000) @@ ("variant-2" :> 3000),
     timeSpent |-> [totalSeconds |-> 42],
     interactions |-> <<"click", "scroll">>]

\* A sparse response: no sessionId, no department, no timeSpent, no
\* interactions, a rating with three decimals (1.004), a rating (2.005) under a
\* key outside variant-1..variant-6, and a server_timestamp set by the client.
PayloadB ==
    [timestamp |-> "c2", server_timestamp |-> "T0",
     feedback |-> [favorite |-> "variant-1"],
     ratings |-> ("variant-1" :> 1004) @@ ("variant-7" :> 2005)]

ValidObjects == {PayloadA, PayloadB}

InvalidObjects ==
    {EmptyDict,
     [sessionId |-> "s2", feedback |-> [department |-> "eng"]],
     [sessionId |-> "s2", ratings |-> ("variant-1" :> 4000)]}

\* Every key a payload rates.
RatingKeys == UNION {DOMAIN o.ratings : o \in ValidObjects}

\* What request.get_json() returns: None (a JSON null) or a dict.
Bodies ==
    {[kind |-> "null", obj |-> EmptyDict]}
        \cup {[kind |-> "object", obj |-> o] : o \in ValidObjects \cup InvalidObjects}

\* ------------------------------------------------------------------- JSON

\* JSON text, as a tree of tagged tokens: a string, a number, an object (its
\* members by name) or an array (its items in order).
JStr(s) == <<"S", s>>
JNum(n) == <<"N", n>>
JObj(members) == <<"O", members>>
JArr(items) == <<"A", items>>

StrMap(m) == JObj([k \in DOMAIN m |-> JStr(m[k])])
NumMap(m) == JObj([k \in DOMAIN m |-> JNum(m[k])])

\* The JSON text of the value a record holds under key k.
dumps_field(k, v) ==
    CASE k = "feedback" -> StrMap(v)
      [] k \in {"ratings", "timeSpent"} -> NumMap(v)
      [] k = "interactions" -> JArr([i \in DOMAIN v |-> JStr(v[i])])
      [] OTHER -> JStr(v)

dumps_record(r) == JObj([k \in DOMAIN r |-> dumps_field(k, r[k])])

\* json.dumps(responses, indent=2) / json.dump(responses, f, indent=2)
dumps(rs) == JArr([i \in DOMAIN rs |-> dumps_record(rs[i])])

RECURSIVE loads(_)
\* json.load(f) / json.loads(text)
loads(t) ==
    CASE t[1] \in {"S", "N"} -> t[2]
      [] t[1] \in {"O", "A"} -> [k \in DOMAIN t[2] |-> loads(t[2][k])]

\* ------------------------------------------------------------------ store

NoFile == [st |-> "absent", text |-> <<>>]
CorruptFile == [st |-> "corrupt", text |-> <<>>]
JsonFile(rs) == [st |-> "json", text |-> dumps(rs)]

\* Mutant of load_responses: the file is never found.
load_nothing(f) == [ok |-> TRUE, value |-> <<>>, exc |-> ""]

\* load_responses(): the list, or the exception json.load raises.
load_responses(f) ==
    CASE f.st = "absent" -> [ok |-> TRUE, value |-> <<>>, exc |-> ""]
      [] f.st = "json" -> [ok |-> TRUE, value |-> loads(f.text), exc |-> ""]
      [] OTHER -> [ok |-> FALSE, value |-> <<>>, exc |-> "JSONDecodeError"]

\* Mutant of save_responses: only the last record is written.
save_last_only(rs) == JsonFile(IF rs = <<>> THEN <<>> ELSE <<rs[Len(rs)]>>)

\* save_responses(responses): the file after a write that completes.
save_responses(rs) == JsonFile(rs)

\* The records of the store, when the file can be read.
Store == load_responses(RESPONSES_FILE).value

\* ---------------------------------------------------------------- replies

\* A response: the handler (op), its input (arg), the status and the body, and,
\* as an observation, the file as it was when the step began (before).
Reply(op, status, arg, body) ==
    [op |-> op, status |-> status, caught |-> TRUE, arg |-> arg, body |-> body,
     before |-> RESPONSES_FILE]

\* An exception that leaves the handler: Flask answers for it, not the handler.
Escaped(op, arg, exc) ==
    [op |-> op, status |-> 500, caught |-> FALSE, arg |-> arg, body |-> [raised |-> exc],
     before |-> RESPONSES_FILE]

\* except Exception as e: return jsonify({'error': str(e)}), 500
Caught(op, arg, exc) == Reply(op, 500, arg, [error |-> exc])

NoReply ==
    [op |-> "none", status |-> 0, caught |-> TRUE, arg |-> <<>>, body |-> <<>>,
     before |-> NoFile]

\* ------------------------------------------------------------------- init

Init ==
    /\ RESPONSES_FILE \in {NoFile, JsonFile(<<>>)}
    /\ ADMIN_API_KEY \in EnvKeys
    /\ workers \in {{"w1"}, Workers}
    /\ pc = [w \in Workers |-> "idle"]
    /\ data = [w \in Workers |-> EmptyDict]
    /\ responses = [w \in Workers |-> <<>>]
    /\ sent = [w \in Workers |-> EmptyDict]
    /\ reply = NoReply
    /\ acked = <<>>

Idle(w) == w \in workers /\ pc[w] = "idle"

InFlight == {w \in Workers : pc[w] = "appended"}

\* ----------------------------------------------------------------- submit

\* if not data
NotData(b) == b.kind = "null" \/ DOMAIN b.obj = {}

\* Mutant of MissingRequired: only `feedback` is looked for.
MissingFeedbackOnly(b) == "feedback" \notin DOMAIN b.obj

\* 'feedback' not in data or 'ratings' not in data
MissingRequired(b) == "feedback" \notin DOMAIN b.obj \/ "ratings" \notin DOMAIN b.obj

\* Mutant of Stamp: the time is written under the client's `timestamp` key.
StampTimestamp(obj, now) ==
    [k \in DOMAIN obj \cup {"timestamp"} |-> IF k = "timestamp" THEN now ELSE obj[k]]

\* data['server_timestamp'] = datetime.now().isoformat()
Stamp(obj, now) ==
    [k \in DOMAIN obj \cup {"server_timestamp"} |->
        IF k = "server_timestamp" THEN now ELSE obj[k]]

\* Mutant of append: the record is inserted at the front of the list.
append_front(loaded, record) == <<record>> \o loaded

\* responses.append(data)
append(loaded, record) == Append(loaded, record)

\* submit_response, a payload that fails validation.
SubmitRejected(w, b) ==
    /\ Idle(w)
    /\ NotData(b) \/ MissingRequired(b)
    /\ reply' = IF NotData(b)
                    THEN Reply("submit", 400, b, [error |-> "No data provided"])
                    ELSE Reply("submit", 400, b, [error |-> "Missing required fields"])
    /\ UNCHANGED <<RESPONSES_FILE, ADMIN_API_KEY, workers, pc, data, responses, sent, acked>>

\* submit_response up to responses.append(data): validate, stamp, load, append.
SubmitLoad(w, b, now) ==
    /\ Idle(w)
    /\ ~NotData(b) /\ ~MissingRequired(b)
    /\ Len(acked) + Cardinality(InFlight) < MaxSubmits
    /\ LET loaded == load_responses(RESPONSES_FILE)
           stamped == Stamp(b.obj, now)
       IN  IF loaded.ok
               THEN /\ Len(loaded.value) < MaxSubmits
                    /\ pc' = [pc EXCEPT ![w] = "appended"]
                    /\ data' = [data EXCEPT ![w] = stamped]
                    /\ responses' = [responses EXCEPT ![w] = append(loaded.value, stamped)]
                    /\ sent' = [sent EXCEPT ![w] = b.obj]
                    /\ reply' = NoReply
               ELSE /\ reply' = Caught("submit", b, loaded.exc)
                    /\ UNCHANGED <<pc, data, responses, sent>>
    /\ UNCHANGED <<RESPONSES_FILE, ADMIN_API_KEY, workers, acked>>

\* The 201 answer of submit_response.
Recorded(w) ==
    Reply("submit", 201, [kind |-> "object", obj |-> sent[w]],
          [success |-> TRUE, message |-> "Response recorded",
           response_id |-> Get(data[w], "sessionId", None),
           total_responses |-> Len(responses[w])])

\* submit_response from save_responses(responses) on.
SubmitSave(w) ==
    /\ w \in workers
    /\ pc[w] = "appended"
    /\ RESPONSES_FILE' = save_responses(responses[w])
    /\ reply' = Recorded(w)
    /\ acked' = Append(acked, [sent |-> sent[w], stored |-> data[w]])
    /\ pc' = [pc EXCEPT ![w] = "idle"]
    /\ data' = [data EXCEPT ![w] = EmptyDict]
    /\ responses' = [responses EXCEPT ![w] = <<>>]
    /\ sent' = [sent EXCEPT ![w] = EmptyDict]
    /\ UNCHANGED <<ADMIN_API_KEY, workers>>

\* ------------------------------------------------------------------ clear

\* Mutant of AdminKey: the environment is not consulted.
AdminKeyDefaultOnly == DefaultKey

\* os.getenv('ADMIN_API_KEY', 'test-key-change-this')
AdminKey == IF ADMIN_API_KEY = Unset THEN DefaultKey ELSE ADMIN_API_KEY

\* api_key != os.getenv(...)
Unauthorized(api_key) == api_key # AdminKey

\* clear_responses
clear_responses(w, api_key) ==
    /\ Idle(w)
    /\ IF Unauthorized(api_key)
           THEN /\ reply' = Reply("clear", 401, api_key, [error |-> "Unauthorized"])
                /\ UNCHANGED <<RESPONSES_FILE, acked>>
           ELSE /\ RESPONSES_FILE' = save_responses(<<>>)
                /\ reply' = Reply("clear", 200, api_key,
                                  [success |-> TRUE, message |-> "All responses cleared"])
                /\ acked' = <<>>
    /\ UNCHANGED <<ADMIN_API_KEY, workers, pc, data, responses, sent>>

\* ----------------------------------------------------------------- health

\* health: no try/except around load_responses().
health(w, now) ==
    /\ Idle(w)
    /\ LET loaded == load_responses(RESPONSES_FILE)
       IN  reply' = IF loaded.ok
                        THEN Reply("health", 200, <<>>,
                                   [status |-> "healthy", timestamp |-> now,
                                    responses_count |-> Len(loaded.value)])
                        ELSE Escaped("health", <<>>, loaded.exc)
    /\ UNCHANGED <<RESPONSES_FILE, ADMIN_API_KEY, workers, pc, data, responses, sent, acked>>

\* ------------------------------------------------------------------- list

\* r.get('feedback', {}).get('department')
DepartmentOf(r) == Get(Get(r, "feedback", EmptyDict), "department", None)

\* [r for r in responses if r.get('feedback', {}).get('department') == department]
RECURSIVE FilterDepartment(_, _)
FilterDepartment(rs, department) ==
    IF rs = <<>> THEN <<>>
    ELSE IF DepartmentOf(Head(rs)) = department
             THEN <<Head(rs)>> \o FilterDepartment(Tail(rs), department)
             ELSE FilterDepartment(Tail(rs), department)

\* if department: a missing parameter (None) and the empty string are both falsy.
Truthy(department) == department # None /\ department # ""

\* The list get_responses returns for a loaded store.
Listed(rs, department) ==
    IF Truthy(department) THEN FilterDepartment(rs, department) ELSE rs

\* get_responses
get_responses(w, department) ==
    /\ Idle(w)
    /\ LET loaded == load_responses(RESPONSES_FILE)
           kept == Listed(loaded.value, department)
       IN  reply' = IF loaded.ok
                        THEN Reply("list", 200, department,
                                   [total |-> Len(kept), responses |-> kept])
                        ELSE Caught("list", department, loaded.exc)
    /\ UNCHANGED <<RESPONSES_FILE, ADMIN_API_KEY, workers, pc, data, responses, sent, acked>>

\* ---------------------------------------------------------------- exports

\* export_json
export_json(w, now) ==
    /\ Idle(w)
    /\ LET loaded == load_responses(RESPONSES_FILE)
       IN  reply' = IF loaded.ok
                        THEN Reply("export_json", 200, <<>>,
                                   [mimetype |-> "application/json", stamp |-> now,
                                    text |-> dumps(loaded.value)])
                        ELSE Caught("export_json", <<>>, loaded.exc)
    /\ UNCHANGED <<RESPONSES_FILE, ADMIN_API_KEY, workers, pc, data, responses, sent, acked>>

CsvFixedColumns ==
    <<"timestamp", "session_id", "participant_name", "participant_email", "department",
      "favorite_design", "most_trusted_design", "favorite_reason", "concerns",
      "total_time_seconds", "interactions_count">>

CsvRatingColumns ==
    <<"rating_variant-1", "rating_variant-2", "rating_variant-3",
      "rating_variant-4", "rating_variant-5", "rating_variant-6">>

ExcelFixedColumns ==
    <<"Timestamp", "Session ID", "Name", "Email", "Department", "Favorite Design",
      "Most Trusted Design", "Why Favorite", "Concerns", "Time Spent (seconds)",
      "Interactions">>

ExcelRatingColumns ==
    <<"Rating - Option 1", "Rating - Option 2", "Rating - Option 3",
      "Rating - Option 4", "Rating - Option 5", "Rating - Option 6">>

\* The eleven values both exports read from a record, in column order.
FixedCells(resp) ==
    LET fb == Get(resp, "feedback", EmptyDict)
    IN  <<Get(resp, "timestamp", None),
          Get(resp, "sessionId", None),
          Get(fb, "participantName", ""),
          Get(fb, "participantEmail", ""),
          Get(fb, "department", ""),
          Get(fb, "favorite", ""),
          Get(fb, "mostTrusted", ""),
          Get(fb, "favoriteReason", ""),
          Get(fb, "concerns", ""),
          Get(Get(resp, "timeSpent", EmptyDict), "totalSeconds", 0),
          Len(Get(resp, "interactions", <<>>))>>

\* resp.get('ratings', {}).get(variant, 0) for variant-1..variant-6
RatingCells(resp) ==
    [i \in DOMAIN VARIANTS |-> Get(Get(resp, "ratings", EmptyDict), VARIANTS[i], 0)]

\* A flat_row: the dict's items, in insertion order.
FlatRow(columns, cells) == [j \in DOMAIN columns |-> <<columns[j], cells[j]>>]

csv_flat_row(resp) ==
    FlatRow(CsvFixedColumns \o CsvRatingColumns, FixedCells(resp) \o RatingCells(resp))

excel_flat_row(resp) ==
    FlatRow(ExcelFixedColumns \o ExcelRatingColumns, FixedCells(resp) \o RatingCells(resp))

\* pd.DataFrame(flat_data): the columns are the keys of the rows, so a frame
\* built from no rows has no columns.
DataFrame(flat_data) ==
    IF flat_data = <<>>
        THEN [columns |-> <<>>, rows |-> <<>>]
        ELSE [columns |-> [j \in DOMAIN flat_data[1] |-> flat_data[1][j][1]],
              rows |-> [i \in DOMAIN flat_data |->
                          [j \in DOMAIN flat_data[i] |-> flat_data[i][j][2]]]]

\* df.to_csv / df.to_excel with index=False: one header row, then the rows;
\* a None (only timestamp and session_id can be None) is written as an empty cell.
Table(df) ==
    [header |-> df.columns,
     rows |-> [i \in DOMAIN df.rows |->
                 [j \in DOMAIN df.rows[i] |->
                     IF j <= 2 /\ df.rows[i][j] = None THEN "" ELSE df.rows[i][j]]]]

\* export_csv
export_csv(w, now) ==
    /\ Idle(w)
    /\ LET loaded == load_responses(RESPONSES_FILE)
           flat_data == [i \in DOMAIN loaded.value |-> csv_flat_row(loaded.value[i])]
       IN  reply' = IF loaded.ok
                        THEN Reply("export_csv", 200, <<>>,
                                   [mimetype |-> "text/csv", stamp |-> now,
                                    table |-> Table(DataFrame(flat_data))])
                        ELSE Caught("export_csv", <<>>, loaded.exc)
    /\ UNCHANGED <<RESPONSES_FILE, ADMIN_API_KEY, workers, pc, data, responses, sent, acked>>

\* export_excel (the column widths it sets are not part of the table)
export_excel(w, now) ==
    /\ Idle(w)
    /\ LET loaded == load_responses(RESPONSES_FILE)
           flat_data == [i \in DOMAIN loaded.value |-> excel_flat_row(loaded.value[i])]
       IN  reply' = IF loaded.ok
                        THEN Reply("export_excel", 200, <<>>,
                                   [mimetype |-> "xlsx", stamp |-> now,
                                    table |-> Table(DataFrame(flat_data))])
                        ELSE Caught("export_excel", <<>>, loaded.exc)
    /\ UNCHANGED <<RESPONSES_FILE, ADMIN_API_KEY, workers, pc, data, responses, sent, acked>>

\* ------------------------------------------------------------------ stats

RatingsOf(r) == Get(r, "ratings", EmptyDict)

\* The keys of ratings_avg: every variant key some record rates.
RatedVariants(rs) == UNION {DOMAIN RatingsOf(rs[i]) : i \in DOMAIN rs}

\* ratings_avg[variant] before averaging: the ratings appended, in store order.
RECURSIVE Contributions(_, _)
Contributions(rs, variant) ==
    IF rs = <<>> THEN <<>>
    ELSE (IF variant \in DOMAIN RatingsOf(Head(rs))
              THEN <<RatingsOf(Head(rs))[variant]>> ELSE <<>>)
         \o Contributions(Tail(rs), variant)

RECURSIVE sum(_)
sum(xs) == IF xs = <<>> THEN 0 ELSE Head(xs) + sum(Tail(xs))

\* round(total / n, 2): total in thousandths, the result in hundredths. The
\* nearest hundredth; a mean halfway between two hundredths goes to the nearer
\* one of its binary floating-point value, which is either (`up` decides).
round2(total, n, up) ==
    LET nearest == (total + 5 * n) \div (10 * n)
        halfway == (total + 5 * n) % (10 * n) = 0
    IN  IF halfway /\ ~up THEN nearest - 1 ELSE nearest

\* Mutant of average_ratings: each sum is divided by the number of records.
average_over_records(rs, ups) ==
    [v \in RatedVariants(rs) |-> round2(sum(Contributions(rs, v)), Len(rs), v \in ups)]

\* ratings_avg after averaging
average_ratings(rs, ups) ==
    [v \in RatedVariants(rs) |->
        round2(sum(Contributions(rs, v)), Len(Contributions(rs, v)), v \in ups)]

\* favorite_counts / most_trusted_counts: how many records hold each value of
\* feedback[key], None for the records without it.
counts(rs, key) ==
    LET val(i) == Get(Get(rs[i], "feedback", EmptyDict), key, None)
    IN  [f \in {val(i) : i \in DOMAIN rs} |-> Cardinality({i \in DOMAIN rs : val(i) = f})]

\* The variants whose mean lies halfway between two hundredths.
Halfway(rs) ==
    {v \in RatedVariants(rs) :
        LET c == Contributions(rs, v) IN (sum(c) + 5 * Len(c)) % (10 * Len(c)) = 0}

\* get_stats
get_stats(w, ups) ==
    /\ Idle(w)
    /\ LET loaded == load_responses(RESPONSES_FILE)
           rs == loaded.value
       IN  /\ ups \subseteq Halfway(rs)
           /\ reply' =
                IF ~loaded.ok THEN Caught("stats", <<>>, loaded.exc)
                ELSE IF rs = <<>>
                    THEN Reply("stats", 200, <<>>, [message |-> "No responses yet"])
                    ELSE Reply("stats", 200, <<>>,
                               [total_responses |-> Len(rs),
                                average_ratings |-> average_ratings(rs, ups),
                                favorite_counts |-> counts(rs, "favorite"),
                                most_trusted_counts |-> counts(rs, "mostTrusted"),
                                last_response |-> Get(rs[Len(rs)], "timestamp", None)])
    /\ UNCHANGED <<RESPONSES_FILE, ADMIN_API_KEY, workers, pc, data, responses, sent, acked>>

\* ----------------------------------------------------------------- faults

\* save_responses raising OSError: open() fails and the file stays as it was,
\* or the write stops after open() truncated the file.
save_fails == {RESPONSES_FILE, CorruptFile}

\* submit_response when save_responses raises: caught by its except clause.
SubmitSaveFails(w, left) ==
    /\ w \in workers
    /\ pc[w] = "appended"
    /\ RESPONSES_FILE' = left
    /\ reply' = Caught("submit", [kind |-> "object", obj |-> sent[w]], "OSError")
    /\ pc' = [pc EXCEPT ![w] = "idle"]
    /\ data' = [data EXCEPT ![w] = EmptyDict]
    /\ responses' = [responses EXCEPT ![w] = <<>>]
    /\ sent' = [sent EXCEPT ![w] = EmptyDict]
    /\ UNCHANGED <<ADMIN_API_KEY, workers, acked>>

\* clear_responses when save_responses raises: there is no except clause.
ClearSaveFails(w, api_key, left) ==
    /\ Idle(w)
    /\ ~Unauthorized(api_key)
    /\ RESPONSES_FILE' = left
    /\ reply' = Escaped("clear", api_key, "OSError")
    /\ UNCHANGED <<ADMIN_API_KEY, workers, pc, data, responses, sent, acked>>

\* ------------------------------------------------------------------- next

Next ==
    \/ \E w \in Workers, b \in Bodies : SubmitRejected(w, b)
    \/ \E w \in Workers, b \in Bodies, now \in Times : SubmitLoad(w, b, now)
    \/ \E w \in Workers : SubmitSave(w)
    \/ \E w \in Workers, k \in ApiKeys : clear_responses(w, k)
    \/ \E w \in Workers, now \in Times : health(w, now)
    \/ \E w \in Workers, d \in Departments : get_responses(w, d)
    \/ \E w \in Workers, now \in Times : export_json(w, now)
    \/ \E w \in Workers, now \in Times : export_csv(w, now)
    \/ \E w \in Workers, now \in Times : export_excel(w, now)
    \/ \E w \in Workers, ups \in SUBSET RatingKeys : get_stats(w, ups)

Spec == Init /\ [][Next]_vars

\* The same program on a disk whose writes can fail.
FaultNext ==
    \/ Next
    \/ \E w \in Workers, left \in save_fails : SubmitSaveFails(w, left)
    \/ \E w \in Workers, k \in ApiKeys, left \in save_fails : ClearSaveFails(w, k, left)

FaultSpec == Init /\ [][FaultNext]_vars

\* ----------------------------------------------------------------- claims

\* Requests are handled one at a time: the deployment has a single worker.
Sequential == Cardinality(workers) = 1

\* A JSON object with both required keys.
ValidBody(b) == b.kind = "object" /\ {"feedback", "ratings"} \subseteq DOMAIN b.obj

\* The store as the request answered by `reply` found it.
StoreBefore == load_responses(reply.before).value

\* C1: with one worker and a store that starts empty or absent, every valid
\* submit is answered 201, the k-th reports total_responses = k, and between
\* requests the store holds exactly the submitted records (each as sent, plus
\* the server's timestamp) in submission order.
C1_SequentialSubmits ==
    Sequential =>
        /\ (reply.op = "submit" /\ ValidBody(reply.arg)) =>
               (reply.status = 201 /\ reply.body.total_responses = Len(acked))
        /\ InFlight = {} =>
               (/\ Len(Store) = Len(acked)
                /\ \A i \in DOMAIN acked : Store[i] = acked[i].stored)
        /\ \A i \in DOMAIN acked :
               /\ DOMAIN acked[i].stored = DOMAIN acked[i].sent \cup {"server_timestamp"}
               /\ \A k \in DOMAIN acked[i].sent \ {"server_timestamp"} :
                      acked[i].stored[k] = acked[i].sent[k]

C1_Witness ==
    /\ Sequential
    /\ reply.op = "submit" /\ reply.status = 201
    /\ reply.body.total_responses = 2
    /\ Len(acked) = 2 /\ acked[1].sent = PayloadB /\ acked[2].sent = PayloadA
    /\ Len(Store) = 2

\* C2: a submit whose payload is null, empty, or lacks `feedback` or `ratings`
\* is answered 400 and leaves the store file as it was.
C2_InvalidSubmitRejected ==
    (reply.op = "submit" /\ ~ValidBody(reply.arg)) =>
        (reply.status = 400 /\ RESPONSES_FILE = reply.before)

C2_Witness ==
    /\ reply.op = "submit" /\ reply.status = 400
    /\ reply.arg.kind = "object" /\ "feedback" \in DOMAIN reply.arg.obj
    /\ Len(Store) = 2

\* C3: a clear whose X-API-Key is missing or is not the admin key (the default
\* key when ADMIN_API_KEY is unset) is answered 401 and leaves the store file as
\* it was; a clear with the admin key is answered 200 and leaves an empty store.
C3_ClearNeedsKey ==
    reply.op = "clear" =>
        IF reply.arg = (IF ADMIN_API_KEY = Unset THEN DefaultKey ELSE ADMIN_API_KEY)
            THEN reply.status = 200 /\ RESPONSES_FILE.st = "json" /\ Store = <<>>
            ELSE reply.status = 401 /\ RESPONSES_FILE = reply.before

C3_Witness ==
    /\ reply.op = "clear" /\ reply.status = 200
    /\ ADMIN_API_KEY = Unset
    /\ Len(StoreBefore) = 2
    /\ Store = <<>>

ClearSucceeded == reply.op = "clear" /\ reply.status = 200

\* s is a prefix of t: every record of s is in t at the same position, unchanged.
Prefix(s, t) == Len(s) <= Len(t) /\ \A i \in DOMAIN s : t[i] = s[i]

\* C4 as stated: in every execution, interleaved submits included, a step that
\* is not a successful clear keeps every stored record at its position.
C4_Original == [][~ClearSucceeded' => Prefix(Store, Store')]_vars

\* C4 as amended: with requests handled one at a time, a step that is not a
\* successful clear keeps every stored record at its position, unchanged, and
\* never lowers the record count.
C4_KeptWhenSequential == [][(Sequential /\ ~ClearSucceeded') => Prefix(Store, Store')]_vars

C4_Witness ==
    /\ Sequential
    /\ reply.op = "submit" /\ reply.status = 201
    /\ Len(Store) = 2 /\ StoreBefore = <<Store[1]>>
    /\ Store[1] # Store[2]

\* C5: with requests handled one at a time, every record acknowledged with 201
\* since the last clear is in the store.
C5_AckedKeptWhenSequential ==
    Sequential =>
        \A i \in DOMAIN acked : \E j \in DOMAIN Store : Store[j] = acked[i].stored

\* C5, the lost write: two workers, both submits answered 201, no clear since,
\* and the store holds only the record of the submit that saved last.
C5_LostWrite ==
    /\ workers = Workers /\ InFlight = {}
    /\ reply.op = "submit" /\ reply.status = 201
    /\ Len(acked) = 2 /\ acked[1].stored # acked[2].stored
    /\ Store = <<acked[2].stored>>

\* The records of rs whose feedback.department is d, in order.
Matching(rs, d) ==
    SelectSeq(rs, LAMBDA r : /\ "feedback" \in DOMAIN r
                             /\ "department" \in DOMAIN r.feedback
                             /\ r.feedback.department = d)

\* C6: for every supplied department value, the empty string included, list
\* answers 200 with exactly the stored records whose feedback.department equals
\* it, in store order, with total their number, and does not modify the store.
C6_ListFilters ==
    (reply.op = "list" /\ reply.arg # None) =>
        /\ reply.status = 200
        /\ reply.body.responses = Matching(Store, reply.arg)
        /\ reply.body.total = Len(reply.body.responses)
        /\ RESPONSES_FILE = reply.before

\* The records that rate variant v.
Raters(v) ==
    {i \in DOMAIN Store : "ratings" \in DOMAIN Store[i] /\ v \in DOMAIN Store[i].ratings}

RECURSIVE RatingSum(_, _)
RatingSum(I, v) ==
    IF I = {} THEN 0
    ELSE LET i == CHOOSE j \in I : TRUE IN Store[i].ratings[v] + RatingSum(I \ {i}, v)

\* The stats answer has the right shape: the no-data message alone for an empty
\* store, otherwise an average for exactly the variants some record rates.
StatsShape ==
    IF Store = <<>>
        THEN DOMAIN reply.body = {"message"} /\ reply.body.message = "No responses yet"
        ELSE /\ "average_ratings" \in DOMAIN reply.body
             /\ DOMAIN reply.body.average_ratings = {v \in RatingKeys : Raters(v) # {}}

\* C7 as stated: every average lies between the least and the greatest rating
\* that contributed to it (averages are in hundredths, ratings in thousandths).
C7_Original ==
    (reply.op = "stats" /\ reply.status = 200) =>
        /\ StatsShape
        /\ Store # <<>> =>
               \A v \in DOMAIN reply.body.average_ratings :
                   /\ \E i \in Raters(v) : Store[i].ratings[v] <= 10 * reply.body.average_ratings[v]
                   /\ \E i \in Raters(v) : Store[i].ratings[v] >= 10 * reply.body.average_ratings[v]

\* C7 as amended: every average is within 0.005 of the exact mean of the ratings
\* that contributed to it, and lies between the least and the greatest of them
\* when they all have at most two decimal places.
C7_RoundedMean ==
    (reply.op = "stats" /\ reply.status = 200) =>
        /\ StatsShape
        /\ Store # <<>> =>
               \A v \in DOMAIN reply.body.average_ratings :
                   LET avg == reply.body.average_ratings[v]
                       n == Cardinality(Raters(v))
                       total == RatingSum(Raters(v), v)
                   IN  /\ 10 * avg * n - total <= 5 * n
                       /\ total - 10 * avg * n <= 5 * n
                       /\ (\A i \in Raters(v) : Store[i].ratings[v] % 10 = 0) =>
                              /\ \E i \in Raters(v) : Store[i].ratings[v] <= 10 * avg
                              /\ \E i \in Raters(v) : Store[i].ratings[v] >= 10 * avg

C7_Witness ==
    /\ reply.op = "stats" /\ reply.status = 200
    /\ Len(Store) = 2
    /\ Raters("variant-1") = {1, 2}
    /\ Store[1].ratings["variant-1"] # Store[2].ratings["variant-1"]
    /\ reply.body.average_ratings["variant-1"] = 300

\* C8: for every store, the empty one included, the CSV and Excel tables have
\* the eleven fixed columns and the six rating columns as their header and one
\* row per stored record, in store order, whose rating cells hold the record's
\* rating for variant-1..variant-6, or 0 where it has none.
C8_SixRatingColumns ==
    (reply.op \in {"export_csv", "export_excel"} /\ reply.status = 200) =>
        LET t == reply.body.table
            fixed == IF reply.op = "export_csv" THEN CsvFixedColumns ELSE ExcelFixedColumns
            rating == IF reply.op = "export_csv" THEN CsvRatingColumns ELSE ExcelRatingColumns
        IN  /\ t.header = fixed \o rating
            /\ Len(t.rows) = Len(Store)
            /\ \A i \in DOMAIN Store : \A n \in DOMAIN VARIANTS :
                   t.rows[i][Len(fixed) + n] =
                       IF i \in Raters(VARIANTS[n]) THEN Store[i].ratings[VARIANTS[n]] ELSE 0

\* The keys under which a payload holds a scalar.
ScalarKeys == {"sessionId", "timestamp", "server_timestamp"}

\* C9 as stated: with requests handled one at a time, the JSON export is the
\* stored sequence, and every scalar field a client submitted, server_timestamp
\* included, is in the exported record with the value submitted.
C9_Original ==
    (Sequential /\ reply.op = "export_json" /\ reply.status = 200) =>
        LET exported == loads(reply.body.text)
        IN  /\ exported = Store
            /\ Len(exported) = Len(acked)
            /\ \A i \in DOMAIN acked : \A k \in ScalarKeys \cap DOMAIN acked[i].sent :
                   k \in DOMAIN exported[i] /\ exported[i][k] = acked[i].sent[k]

\* C9 as amended: the same for every scalar field other than server_timestamp,
\* which holds the time the server read at the write, whatever the client sent.
C9_RoundTrip ==
    (Sequential /\ reply.op = "export_json" /\ reply.status = 200) =>
        LET exported == loads(reply.body.text)
        IN  /\ exported = Store
            /\ Len(exported) = Len(acked)
            /\ \A i \in DOMAIN acked :
                   /\ \A k \in (ScalarKeys \cap DOMAIN acked[i].sent) \ {"server_timestamp"} :
                          k \in DOMAIN exported[i] /\ exported[i][k] = acked[i].sent[k]
                   /\ "server_timestamp" \in DOMAIN exported[i]
                   /\ exported[i].server_timestamp \in Times

C9_Witness ==
    /\ Sequential
    /\ reply.op = "export_json" /\ reply.status = 200
    /\ Len(acked) = 2 /\ acked[1].sent = PayloadA /\ acked[2].sent = PayloadB
    /\ Len(loads(reply.body.text)) = 2

\* C10: every failure is answered by the handler itself, with a 500 that
\* carries the exception's string.
C10_AllCaught ==
    reply.status = 500 => (reply.caught /\ DOMAIN reply.body = {"error"})

====
